---- MODULE Spec2Model ----
(***************************************************************************)
(* fastSF (src/src/fastSF.cc): structure functions of a gridded field,     *)
(* computed by P MPI ranks.  Every rank runs main(): it reads the          *)
(* parameters, validates the process grid, loads the field, and runs one   *)
(* of six drivers.  A driver walks the rank's column of the displacement   *)
(* table built by compute_index_list and, once per (displacement, order),  *)
(* contributes a tuple to a sequence of MPI_Gather calls rooted at rank 0; *)
(* rank 0 stores the gathered values in the result tensors.                *)
(*                                                                         *)
(* Arrays are functions over 0-based index tuples.  Reals are kept exact:  *)
(* the grid spacings are 1 (0 on a degenerate axis), field values are      *)
(* integers, and a computed structure function is a symbolic value.        *)
(***************************************************************************)
EXTENDS Integers, Sequences, FiniteSets, TLC

\* ---------------------------------------------------------------- bounds
MaxP == 2          \* MPI_Comm_size is drawn from 1..MaxP
MaxN == 5          \* Nx, Ny, Nz are drawn from 1..MaxN
MaxCells == 25     \* Nx*Ny*Nz of an explored grid is at most MaxCells
MaxQ == 1          \* 0 <= q1 <= q2 <= MaxQ
MaxAhead == 1      \* gather contributions a rank may have in flight to rank 0
MaxNPart == 12     \* Nx, Ny of the partitioner specification: 1..MaxNPart
MaxPPart == 8      \* P, px of the partitioner specification: 1..MaxPPart
MaxOrder == 3      \* q1 <= q2 <= MaxOrder in the orders specification
MaxLog2 == 11      \* grids of the count specification: up to 2^MaxLog2 per axis

VARIABLES
    P,                      \* MPI_Comm_size
    px,                     \* Processors_X
    Nx, Ny, Nz,             \* grid
    q1, q2,                 \* orders
    scalar_switch, longitudinal, two_dimension_switch, test_switch,
    env,                    \* the files the run finds: para.yaml, argv, in/*.h5
    pc,                     \* pc[r]: where rank r is in main
    exit_status,            \* exit_status[r]: -1 while running
    finalized,              \* finalized[r]: subset of {"h5", "mpi"}
    fields,                 \* fields[r][name]: the input arrays of rank r
    SF,                     \* SF[r][name]: the result tensors of rank r
    index_list,             \* index_list[r]: the driver's displacement table
    ix, z, p,               \* loop counters of the driver on rank r
    chan,                   \* chan[r]: contributions of rank r not yet received by rank 0
    nwrites,                \* nwrites[name][slot]: gather-loop writes rank 0 made to a slot
    rounds,                 \* rounds[r]: gather rounds rank r has issued
    touched,                \* touched[r]: phases in which rank r indexed or sized a result tensor
    out_files,              \* files under out/
    count,                  \* count[r]: the last int count rank r computed, and where
    called,                 \* called[r]: the drivers calc_SFs has invoked on rank r
    wlog,                   \* the gather-loop stores of rank 0, in program order
    ub                      \* undefined behaviour the run has executed

cfgvars == <<P, px, Nx, Ny, Nz, q1, q2, scalar_switch, longitudinal,
             two_dimension_switch, test_switch, env>>
runvars == <<pc, exit_status, finalized, fields, SF, index_list, ix, z, p,
             chan, nwrites, rounds, touched, out_files, count, called, wlog, ub>>
vars == <<cfgvars, runvars>>

Ranks == 0 .. P-1

\* ------------------------------------------------------ integer helpers
RECURSIVE Pow(_, _)
Pow(b, e) == IF e <= 0 THEN 1 ELSE b * Pow(b, e-1)

RECURSIVE SumOver(_, _)
SumOver(f, D) ==
    IF D = {} THEN 0
    ELSE LET d == CHOOSE d \in D : TRUE IN f[d] + SumOver(f, D \ {d})

RECURSIVE IsPow2(_)
IsPow2(n) == IF n = 1 THEN TRUE
             ELSE IF n < 1 \/ n % 2 = 1 THEN FALSE ELSE IsPow2(n \div 2)

\* ------------------------------------------------------------ partitioner
\* get_rank: the x and y coordinates of a rank in the px x py process grid
get_rank(rank, py) ==
    LET ranky == rank % py
    IN  [rankx |-> (rank - ranky) \div py, ranky |-> ranky]

\* a list whose odd positions mirror about N instead of N-1
compute_index_list_1D_mirror_N(N, np, rank) ==
    LET list_size == N \div np
        even(i) == rank + i * np
    IN  [list |-> [i \in 0 .. list_size-1 |->
                     IF i % 2 = 0 THEN even(i) ELSE N - even(i-1)],
         oob  |-> np # N /\ list_size % 2 = 1]

\* compute_index_list(Array<int,1>&, Nx, px, rank): N is the half size of the
\* axis.  list[i] for the positions inside the list; oob tells that the loop
\* wrote position list_size, one past the end.
compute_index_list_1D(N, np, rank) ==
    LET list_size == N \div np
        even(i) == rank + i * np
    IN  [list |-> [i \in 0 .. list_size-1 |->
                     IF i % 2 = 0 THEN even(i) ELSE N - 1 - even(i-1)],
         oob  |-> np # N /\ list_size % 2 = 1]

\* compute_index_list(Array<int,3>&, Nx, Ny): the (list_size, 2, P) table.
\* A row the loop does not assign keeps what the allocation held (g[rank_id]
\* in the column of rank_id); oob
\* tells that a write fell outside the table or outside a per-axis list.
compute_index_list(N1, N2, nP, npx, g) ==
    LET list_size == (N1 * N2) \div (4 * nP)
        py == nP \div npx
        nx == N1 \div (2 * npx)
        ny == N2 \div (2 * py)
        xl(rank_id) == compute_index_list_1D(N1 \div 2, npx, get_rank(rank_id, py).rankx)
        yl(rank_id) == compute_index_list_1D(N2 \div 2, py, get_rank(rank_id, py).ranky)
        X == [rank_id \in 0 .. nP-1 |-> xl(rank_id)]
        Y == [rank_id \in 0 .. nP-1 |-> yl(rank_id)]
        entry(row, col, rank_id) ==
            IF ny > 0 /\ row < nx * ny
            THEN IF col = 0 THEN X[rank_id].list[row \div ny]
                 ELSE Y[rank_id].list[row % ny]
            ELSE g[rank_id]
    IN  [list_size |-> list_size,
         data |-> [t \in (0 .. list_size-1) \X {0, 1} \X (0 .. nP-1) |->
                     entry(t[1], t[2], t[3])],
         assigned |-> IF ny > 0 THEN 0 .. (nx * ny - 1) ELSE {},
         oob |-> \/ (ny > 0 /\ nx * ny > list_size)
                 \/ \E rank_id \in 0 .. nP-1 : X[rank_id].oob \/ Y[rank_id].oob]

\* ------------------------------------------------------------ real values
\* A computed structure function is num/den * sqrt(rad) (rad = 1: rational),
\* the IEEE not-a-number NaN, or a sum of unlike surds kept as its terms.
RECURSIVE GCD(_, _)
GCD(a, b) == IF b = 0 THEN a ELSE GCD(b, a % b)

Abs(n) == IF n < 0 THEN -n ELSE n

NaN == "NaN"
Junk == "Junk"     \* a double computed from storage outside an array
Zero == [num |-> 0, den |-> 1, rad |-> 1]

\* n/d * sqrt(rad) in lowest terms; x/0 is not finite
Surd(n, d, rad) ==
    IF d = 0 THEN NaN
    ELSE IF n = 0 THEN Zero
    ELSE LET g == GCD(Abs(n), Abs(d))
             s == IF d < 0 THEN -1 ELSE 1
         IN  [num |-> s * (n \div g), den |-> s * (d \div g), rad |-> rad]

Rat(n, d) == Surd(n, d, 1)

\* ------------------------------------------------------------ grid, fields
\* main, lines 479-488, with Lx = Nx-1, Ly = Ny-1, Lz = Nz-1
Lx == Nx - 1
Ly == Ny - 1
Lz == Nz - 1
dx == IF Nx = 1 THEN 0 ELSE Lx \div (Nx - 1)
dy == IF Ny = 1 THEN 0 ELSE Ly \div (Ny - 1)
dz == IF Nz = 1 THEN 0 ELSE Lz \div (Nz - 1)

\* A 2D array of extent (n1, n3) is held as extent (n1, 1, n3).
Box(n1, n2, n3) == (0 .. n1-1) \X (0 .. n2-1) \X (0 .. n3-1)

FieldNames == {"T", "V1", "V2", "V3", "T_2D", "V1_2D", "V3_2D"}
Empty == << >>     \* an array that was never resized: no elements

\* Read_Init: the four generators of the test fields
Read_Init(name, n1, n2, n3) ==
    [t \in Box(n1, n2, n3) |->
        CASE name \in {"V1", "V1_2D"} -> t[1] * dx
          [] name = "V2"              -> t[2] * dy
          [] name \in {"V3", "V3_2D"} -> t[3] * dz
          [] name = "T"               -> t[1] * dx + t[2] * dy + t[3] * dz
          [] name = "T_2D"            -> t[1] * dx + t[3] * dz]

\* the dataset of in/<name>.h5: a fixed field that is not linear
DataSet(name, n1, n2, n3) ==
    [t \in Box(n1, n2, n3) |->
        CASE name \in {"V1", "V1_2D"} -> t[1] * t[1] + t[3]
          [] name = "V2"              -> t[2] + t[1] * t[3]
          [] name \in {"V3", "V3_2D"} -> t[3] - t[1]
          [] name \in {"T", "T_2D"}   -> t[1] * t[2] + t[3] * t[3] - t[1]]

\* the arrays Read_fields resizes for the selected variant
VariantFields ==
    IF two_dimension_switch
    THEN IF scalar_switch THEN {"T_2D"} ELSE {"V1_2D", "V3_2D"}
    ELSE IF scalar_switch THEN {"T"} ELSE {"V1", "V2", "V3"}

\* ------------------------------------------------------------------ kernel
\* F(Range(x,n1-1), Range(y,n2-1), Range(z,n3-1)) - F(Range(0,n1-x-1), ...)
Delta(F, x, y, zz, n1, n2, n3) ==
    [t \in Box(n1 - x, n2 - y, n3 - zz) |->
        F[<<t[1] + x, t[2] + y, t[3] + zz>>] - F[t]]

\* A natural number as eight base-256 digits, least significant first: the
\* products of three extents do not fit the integers of the checker.
Bytes(n) == [i \in 0 .. 7 |-> IF i < 4 THEN (n \div Pow(256, i)) % 256 ELSE 0]

RECURSIVE Carry(_, _, _)
Carry(col, k, c) ==
    IF k > 7 THEN << >>
    ELSE <<(col[k] + c) % 256>> \o Carry(col, k + 1, (col[k] + c) \div 256)

\* a * b modulo 2^64, digit by digit
Mul(a, b) ==
    LET col == [k \in 0 .. 7 |-> SumOver([i \in 0 .. k |-> a[i] * b[k - i]], 0 .. k)]
        s == Carry(col, 0, 0)
    IN  [i \in 0 .. 7 |-> s[i + 1]]

\* the exact product of three positive extents
Product3(a, b, c) == Mul(Mul(Bytes(a), Bytes(b)), Bytes(c))

\* the int an x86-64 build keeps of a product: its low 32 bits, two's complement
Int32(b) ==
    b[0] + 256 * b[1] + 65536 * b[2]
    + 16777216 * (IF b[3] >= 128 THEN b[3] - 256 ELSE b[3])

\* the digits of a nonnegative int; no natural has the digits of a negative one
Widen(v) == IF v >= 0 THEN Bytes(v) ELSE [i \in 0 .. 7 |-> -1]

\* int count=(Nx-x)*(Ny-y)*(Nz-z): int operands, int product.  Signed overflow
\* is undefined; the build wraps.
Count(x, y, zz, n1, n2, n3) == Int32(Product3(n1 - x, n2 - y, n3 - zz))

\* a scalar kernel that keeps the sum instead of the mean
St_of_sum(dT, q, cnt) ==
    Rat(SumOver([t \in DOMAIN dT |-> Pow(dT[t], q)], DOMAIN dT), 1)

\* sum(pow(dT, q)) / count
St_of(dT, q, cnt) ==
    Rat(SumOver([t \in DOMAIN dT |-> Pow(dT[t], q)], DOMAIN dT), cnt)

\* a longitudinal kernel that projects on l instead of l/r
Spll_of_unnormalised(num, R2, q, cnt) ==
    Rat(SumOver([t \in DOMAIN num |-> Pow(num[t], q)], DOMAIN num), cnt)

\* dUpll = (lx*dUx + ly*dUy + lz*dUz)/r, Spll = sum(pow(dUpll, q))/count.
\* num is r*dUpll and R2 is r*r; pow(v, 0) is 1 for every v, NaN included.
Spll_of(num, R2, q, cnt) ==
    IF q = 0 THEN Rat(Cardinality(DOMAIN num), cnt)
    ELSE IF R2 = 0 THEN NaN
    ELSE LET s == SumOver([t \in DOMAIN num |-> Pow(num[t], q)], DOMAIN num)
         IN  IF q % 2 = 0 THEN Rat(s, cnt * Pow(R2, q \div 2))
             ELSE Surd(s, cnt * Pow(R2, (q + 1) \div 2), R2)

\* dU = dU - dUpll*l/r per component, dUx = pow(dUx*dUx+dUy*dUy+dUz*dUz, 0.5),
\* Sperp = sum(pow(dUx, q))/count.  m is r*r times the squared magnitude.
Sperp_of(m, R2, q, cnt) ==
    IF q = 0 THEN Rat(Cardinality(DOMAIN m), cnt)
    ELSE IF R2 = 0 THEN NaN
    ELSE IF \A t \in DOMAIN m : m[t] = 0 THEN Zero
    ELSE IF q % 2 = 0
         THEN Rat(SumOver([t \in DOMAIN m |-> Pow(m[t], q \div 2)], DOMAIN m),
                  cnt * Pow(R2, q \div 2))
         ELSE [terms |-> [v \in {m[t] : t \in DOMAIN m} |->
                             Cardinality({t \in DOMAIN m : m[t] = v})],
               q |-> q, r2 |-> R2, den |-> cnt]

\* ------------------------------------------------------- variant, tensors
SFNames == {"SF_Grid_pll", "SF_Grid_perp", "SF_Grid_scalar",
            "SF_Grid2D_pll", "SF_Grid2D_perp", "SF_Grid2D_scalar"}

\* a dispatch that looks at the longitudinal flag before the scalar switch
Driver_longitudinal_first ==
    IF two_dimension_switch
    THEN IF longitudinal THEN "SFunc_long_2D"
         ELSE IF scalar_switch THEN "SF_scalar_2D" ELSE "SFunc2D"
    ELSE IF longitudinal THEN "SFunc_long_3D"
         ELSE IF scalar_switch THEN "SF_scalar_3D" ELSE "SFunc3D"

\* calc_SFs: the driver the switches select
Driver ==
    IF two_dimension_switch
    THEN IF scalar_switch THEN "SF_scalar_2D"
         ELSE IF longitudinal THEN "SFunc_long_2D" ELSE "SFunc2D"
    ELSE IF scalar_switch THEN "SF_scalar_3D"
         ELSE IF longitudinal THEN "SFunc_long_3D" ELSE "SFunc3D"

\* the tensors a driver stores into, in the order of its assignments
DriverTensors(drv) ==
    CASE drv = "SFunc3D"       -> <<"SF_Grid_pll", "SF_Grid_perp">>
      [] drv = "SFunc_long_3D" -> <<"SF_Grid_pll">>
      [] drv = "SF_scalar_3D"  -> <<"SF_Grid_scalar">>
      [] drv = "SFunc2D"       -> <<"SF_Grid2D_pll", "SF_Grid2D_perp">>
      [] drv = "SFunc_long_2D" -> <<"SF_Grid2D_pll">>
      [] drv = "SF_scalar_2D"  -> <<"SF_Grid2D_scalar">>

Is2D(drv) == drv \in {"SFunc2D", "SFunc_long_2D", "SF_scalar_2D"}

SeqRange(s) == {s[i] : i \in 1 .. Len(s)}

\* resize(Nx/2, Ny/2, Nz/2, q2-q1+1) and resize(Nx/2, Nz/2, q2-q1+1)
Slots4(n1, n2, n3, m) == (0 .. n1-1) \X (0 .. n2-1) \X (0 .. n3-1) \X (0 .. m-1)
Slots3(n1, n3, m) == (0 .. n1-1) \X (0 .. n3-1) \X (0 .. m-1)

\* a resize_SFs that never sizes the transverse tensor
ResizedTensors_without_perp ==
    IF ~two_dimension_switch
    THEN IF scalar_switch THEN {"SF_Grid_scalar"} ELSE {"SF_Grid_pll"}
    ELSE IF scalar_switch THEN {"SF_Grid2D_scalar"} ELSE {"SF_Grid2D_pll"}

\* the tensors resize_SFs sizes for the selected variant
ResizedTensors ==
    IF ~two_dimension_switch
    THEN IF scalar_switch THEN {"SF_Grid_scalar"}
         ELSE IF ~longitudinal THEN {"SF_Grid_pll", "SF_Grid_perp"} ELSE {"SF_Grid_pll"}
    ELSE IF scalar_switch THEN {"SF_Grid2D_scalar"}
         ELSE IF ~longitudinal THEN {"SF_Grid2D_pll", "SF_Grid2D_perp"} ELSE {"SF_Grid2D_pll"}

TensorSlots(name) ==
    IF name \in {"SF_Grid_pll", "SF_Grid_perp", "SF_Grid_scalar"}
    THEN Slots4(Nx \div 2, Ny \div 2, Nz \div 2, q2 - q1 + 1)
    ELSE Slots3(Nx \div 2, Nz \div 2, q2 - q1 + 1)

\* ------------------------------------------------------------ environment
Faults == {"none", "para_missing", "para_unparseable", "argv_bool",
           "file_missing", "file_rank", "file_shape"}

\* what the command line adds to a run that has no fault: base names for the
\* output files (-L, -P, -M)
Options == {"argv_names"}

\* no count computed yet
NoCount == [at |-> << >>, value |-> 0]

\* every rank at the start of main, nothing read, sized or sent
InitRun ==
    /\ pc = [r \in Ranks |-> "main"]
    /\ exit_status = [r \in Ranks |-> -1]
    /\ finalized = [r \in Ranks |-> {}]
    /\ fields = [r \in Ranks |-> [n \in FieldNames |-> Empty]]
    /\ SF = [r \in Ranks |-> [n \in SFNames |-> Empty]]
    /\ index_list = [r \in Ranks |-> Empty]
    /\ ix = [r \in Ranks |-> 0]
    /\ z = [r \in Ranks |-> 0]
    /\ p = [r \in Ranks |-> 0]
    /\ chan = [r \in Ranks |-> << >>]
    /\ nwrites = [n \in SFNames |-> Empty]
    /\ rounds = [r \in Ranks |-> 0]
    /\ touched = [r \in Ranks |-> {}]
    /\ out_files = << >>
    /\ count = [r \in Ranks |-> NoCount]
    /\ called = [r \in Ranks |-> << >>]
    /\ wlog = << >>
    /\ ub = {}

\* Parameters a failing run never reads are fixed, so that every explored
\* configuration is a different run.  The base names of the output files do
\* not enter the computation: runs that override them are explored on the
\* grids of two points per axis.  A run that cannot read in/para.yaml has
\* no configuration for the checks of main to reject: its parameters are given
\* values that pass them for every P.
Init ==
    /\ P \in 1 .. MaxP
    /\ px \in 1 .. MaxP + 1
    /\ Nx \in 1 .. MaxN
    /\ Ny \in 1 .. MaxN
    /\ Nz \in 1 .. MaxN
    /\ Nx * Ny * Nz <= MaxCells
    /\ q1 \in 0 .. MaxQ
    /\ q2 \in q1 .. MaxQ
    /\ scalar_switch \in BOOLEAN
    /\ longitudinal \in BOOLEAN
    /\ two_dimension_switch \in BOOLEAN
    /\ test_switch \in BOOLEAN
    /\ env \in Faults \cup Options
    /\ two_dimension_switch => Ny = 1
    /\ env \in Options => Nx = 2 /\ Ny \in {1, 2} /\ Nz = 2
    /\ env \in {"para_missing", "para_unparseable"} =>
          px = 1 /\ Nx = 1 /\ Ny = 1 /\ Nz = 1
    /\ env = "argv_bool" => Nx = 2 /\ Ny = 2 /\ Nz = 2
    /\ env \in {"para_missing", "para_unparseable", "argv_bool"} =>
          /\ q1 = 0 /\ q2 = 0
          /\ ~scalar_switch /\ ~longitudinal /\ ~two_dimension_switch /\ ~test_switch
    /\ env \in {"file_missing", "file_rank", "file_shape"} =>
          /\ q1 = 0 /\ q2 = 0 /\ ~longitudinal /\ ~test_switch
    /\ InitRun

\* exit(status), after h5::finalize() and MPI_Finalize() when fin
Exit(r, status, fin) ==
    /\ pc' = [pc EXCEPT ![r] = "exited"]
    /\ exit_status' = [exit_status EXCEPT ![r] = status]
    /\ finalized' = [finalized EXCEPT ![r] = IF fin THEN {"h5", "mpi"} ELSE @]

Goto(r, label) ==
    /\ pc' = [pc EXCEPT ![r] = label]
    /\ UNCHANGED <<exit_status, finalized>>

\* ------------------------------------------------------------------- main
\* get_Inputs: open and parse in/para.yaml.  A parse error is caught and
\* reported, and the lookups that follow throw on the empty document.
get_Inputs ==
    CASE env = "para_missing"     -> [exit |-> 1, fin |-> TRUE]
      [] env = "para_unparseable" -> [exit |-> 134, fin |-> FALSE]
      [] OTHER                    -> [exit |-> -1, fin |-> FALSE]

\* the three checks of main, lines 500-533
ChecksPass ==
    /\ ~(px > P)
    /\ (Nx \div 2) % px = 0
    /\ LET N2 == IF two_dimension_switch THEN Nz ELSE Ny
       IN  (N2 \div 2) % (P \div px) = 0

\* main, lines 375-533: get_Inputs, command line overlay (str_to_bool exits
\* on a word that is not a boolean), spacings, validation of the process grid
main(r) ==
    /\ pc[r] = "main"
    /\ IF get_Inputs.exit # -1 THEN Exit(r, get_Inputs.exit, get_Inputs.fin)
       ELSE IF env = "argv_bool" THEN Exit(r, 1, FALSE)
       ELSE IF ~ChecksPass THEN Exit(r, 1, TRUE)
       ELSE Goto(r, "Read_fields")
    /\ UNCHANGED <<cfgvars, count, called, wlog, fields, SF, index_list, ix, z, p, chan, nwrites,
                   rounds, touched, out_files, ub>>

\* Read_fields: size the arrays of the variant, then generate the test field
\* or read in/<name>.h5 (read_2D, read_3D, compatibility_check, show_checklist)
Read_fields(r) ==
    /\ pc[r] = "Read_fields"
    /\ LET n2 == IF two_dimension_switch THEN 1 ELSE Ny
           load(n) == IF test_switch THEN Read_Init(n, Nx, n2, Nz)
                      ELSE DataSet(n, Nx, n2, Nz)
           blank(n) == [t \in Box(Nx, n2, Nz) |-> 0]
       IN  IF ~test_switch /\ env \in {"file_missing", "file_rank", "file_shape"}
           THEN /\ fields' = [fields EXCEPT ![r] =
                     [n \in FieldNames |-> IF n \in VariantFields THEN blank(n) ELSE @[n]]]
                /\ Exit(r, 1, TRUE)
           ELSE /\ fields' = [fields EXCEPT ![r] =
                     [n \in FieldNames |-> IF n \in VariantFields THEN load(n) ELSE @[n]]]
                /\ Goto(r, "resize_SFs")
    /\ UNCHANGED <<cfgvars, count, called, wlog, SF, index_list, ix, z, p, chan, nwrites,
                   rounds, touched, out_files, ub>>

\* a resize_SFs without the rank guard: every rank sizes the tensors
resize_SFs_on_every_rank(r) ==
    /\ pc[r] = "resize_SFs"
    /\ SF' = [SF EXCEPT ![r] = [n \in SFNames |->
                 IF n \in ResizedTensors
                 THEN [s \in TensorSlots(n) |-> Zero] ELSE @[n]]]
    /\ nwrites' = [n \in SFNames |->
                 IF n \in ResizedTensors
                 THEN [s \in TensorSlots(n) |-> 0] ELSE nwrites[n]]
    /\ touched' = [touched EXCEPT ![r] =
                 @ \cup {<<"resize_SFs", n>> : n \in ResizedTensors}]
    /\ Goto(r, "calc_SFs")
    /\ UNCHANGED <<cfgvars, count, called, wlog, fields, index_list, ix, z, p, chan,
                   rounds, out_files, ub>>

\* resize_SFs: rank 0 sizes and zeroes the tensors of the variant
resize_SFs(r) ==
    /\ pc[r] = "resize_SFs"
    /\ IF r = 0
       THEN /\ SF' = [SF EXCEPT ![r] = [n \in SFNames |->
                        IF n \in ResizedTensors
                        THEN [s \in TensorSlots(n) |-> Zero] ELSE @[n]]]
            /\ nwrites' = [n \in SFNames |->
                        IF n \in ResizedTensors
                        THEN [s \in TensorSlots(n) |-> 0] ELSE nwrites[n]]
            /\ touched' = [touched EXCEPT ![r] =
                        @ \cup {<<"resize_SFs", n>> : n \in ResizedTensors}]
       ELSE UNCHANGED <<SF, nwrites, touched>>
    /\ Goto(r, "calc_SFs")
    /\ UNCHANGED <<cfgvars, count, called, wlog, fields, index_list, ix, z, p, chan,
                   rounds, out_files, ub>>


\* ---------------------------------------------------------------- drivers
\* what a freshly allocated int may hold
GarbageInts == {0, -1}

\* second axis of the partition: z in 2D mode, y in 3D mode
N2of(drv) == IF Is2D(drv) THEN Nz ELSE Ny

\* int c_per_proc = Nx*Ny/(4*P)   (p_per_proc = Nx*Nz/(4*P) in 2D)
c_per_proc(drv) == (Nx * N2of(drv)) \div (4 * P)

\* the displacement of the current iteration of rank r: (x, y, z)
Disp(r, drv) ==
    LET a == index_list[r].data[<<ix[r], 0, r>>]
        b == index_list[r].data[<<ix[r], 1, r>>]
    IN  IF Is2D(drv) THEN <<a, 0, b>> ELSE <<a, b, z[r]>>

\* extent of the field along y as the driver sees it
FieldNy(drv) == IF Is2D(drv) THEN 1 ELSE Ny

\* Range(x, Nx-1) and Range(0, Nx-x-1) lie inside the field, on every axis
SlicesInField(l, drv) ==
    /\ l[1] \in 0 .. Nx - 1
    /\ l[2] \in 0 .. FieldNy(drv) - 1
    /\ l[3] \in 0 .. Nz - 1

\* an order loop that raises to the loop index p instead of q1+p
OrderOf_index(pidx) == pidx

\* pow(..., q1+p): the order of iteration p of the order loop
OrderOf(pidx) == q1 + pidx

\* the values of one round, in the order of the gathers, for displacement l
\* and order index pidx computed from the arrays F
Kernel(l, pidx, F, drv) ==
    LET n2 == FieldNy(drv)
        q == OrderOf(pidx)
        cnt == Count(l[1], l[2], l[3], Nx, n2, Nz)
        D(name) == Delta(F[name], l[1], l[2], l[3], Nx, n2, Nz)
        lx == l[1] * dx
        ly == IF Is2D(drv) THEN 0 ELSE l[2] * dy
        lz == l[3] * dz
        R2 == lx * lx + ly * ly + lz * lz
        dUx == D(IF Is2D(drv) THEN "V1_2D" ELSE "V1")
        dUy == IF Is2D(drv) THEN [t \in DOMAIN dUx |-> 0] ELSE D("V2")
        dUz == D(IF Is2D(drv) THEN "V3_2D" ELSE "V3")
        num == [t \in DOMAIN dUx |-> lx * dUx[t] + ly * dUy[t] + lz * dUz[t]]
        m == [t \in DOMAIN dUx |->
                (dUx[t] * dUx[t] + dUy[t] * dUy[t] + dUz[t] * dUz[t]) * R2
                - num[t] * num[t]]
        ok == SlicesInField(l, drv)
        Spll == IF ok THEN Spll_of(num, R2, q, cnt) ELSE Junk
        Sperp == IF ok THEN Sperp_of(m, R2, q, cnt) ELSE Junk
        St == IF ok THEN St_of(D(IF Is2D(drv) THEN "T_2D" ELSE "T"), q, cnt) ELSE Junk
    IN  CASE drv = "SFunc3D"       -> <<l[1], l[2], l[3], Spll, pidx, Sperp>>
          [] drv = "SFunc_long_3D" -> <<l[1], l[2], l[3], Spll, pidx>>
          [] drv = "SF_scalar_3D"  -> <<l[1], l[2], l[3], St, pidx>>
          [] drv = "SFunc2D"       -> <<l[1], l[3], Spll, pidx, Sperp>>
          [] drv = "SFunc_long_2D" -> <<l[1], l[3], Spll, pidx>>
          [] drv = "SF_scalar_2D"  -> <<l[1], l[3], St, pidx>>

\* the values a rank hands to the gathers of one round, in call order
Contribution(r, drv) == Kernel(Disp(r, drv), p[r], fields[r], drv)

\* the slot a gathered tuple addresses: (X(i), Y(i), Z(i), p_arr(i))
SlotOf(msg, drv) ==
    IF Is2D(drv) THEN <<msg[1], msg[2], msg[4]>>
    ELSE <<msg[1], msg[2], msg[3], msg[5]>>

\* the value a gathered tuple carries for the k-th tensor of the driver
ValueOf(msg, drv, k) ==
    IF Is2D(drv) THEN (IF k = 1 THEN msg[3] ELSE msg[5])
    ELSE (IF k = 1 THEN msg[4] ELSE msg[6])

\* for (i = 0; i < P; i++) A(X(i), Y(i), Z(i), p_arr(i)) = S_arr(i);
\* a slot outside the tensor is a write outside its storage
RECURSIVE StoreAll(_, _, _, _, _)
StoreAll(A, got, drv, k, i) ==
    IF i >= P THEN A
    ELSE LET s == SlotOf(got[i], drv)
         IN  StoreAll(IF s \in DOMAIN A THEN [A EXCEPT ![s] = ValueOf(got[i], drv, k)]
                      ELSE A, got, drv, k, i + 1)

\* the stores of one round in program order: for each i, each tensor of the driver
Stores(got, drv) ==
    LET T == DriverTensors(drv)
    IN  [j \in 1 .. P * Len(T) |->
            <<T[((j - 1) % Len(T)) + 1], SlotOf(got[(j - 1) \div Len(T)], drv)>>]

\* the count a driver computes for displacement l, with the place it is for
EvalCount(l, drv) ==
    [at |-> l, value |-> Count(l[1], l[2], l[3], Nx, FieldNy(drv), Nz)]

\* gather-loop writes per slot, after one more round
CountAll(C, got, drv) ==
    [s \in DOMAIN C |-> C[s] + Cardinality({i \in 0 .. P-1 : SlotOf(got[i], drv) = s})]

\* loop counters after the body: p, then z (3D only), then ix
LoopNext(r, drv) ==
    IF p[r] + 1 <= q2 - q1 THEN [ix |-> ix[r], z |-> z[r], p |-> p[r] + 1, done |-> FALSE]
    ELSE IF ~Is2D(drv) /\ z[r] + 1 < Nz \div 2
         THEN [ix |-> ix[r], z |-> z[r] + 1, p |-> 0, done |-> FALSE]
    ELSE IF ix[r] + 1 < c_per_proc(drv)
         THEN [ix |-> ix[r] + 1, z |-> 0, p |-> 0, done |-> FALSE]
    ELSE [ix |-> ix[r], z |-> z[r], p |-> p[r], done |-> TRUE]

Advance(r, drv) ==
    LET n == LoopNext(r, drv)
    IN  /\ ix' = [ix EXCEPT ![r] = n.ix]
        /\ z' = [z EXCEPT ![r] = n.z]
        /\ p' = [p EXCEPT ![r] = n.p]
        /\ Goto(r, IF n.done THEN "cleanup" ELSE "gather")

\* driver entry: c_per_proc, compute_index_list, up to the first iteration
Enter(r, drv) ==
    /\ pc[r] = "calc_SFs"
    /\ \E g \in [0 .. P-1 -> GarbageInts] :
          index_list' = [index_list EXCEPT ![r] =
                            compute_index_list(Nx, N2of(drv), P, px, g)]
    /\ ub' = ub \cup (IF index_list'[r].oob THEN {"index_list"} ELSE {})
    /\ Goto(r, IF c_per_proc(drv) = 0 \/ (~Is2D(drv) /\ Nz \div 2 = 0)
               THEN "cleanup" ELSE "gather")
    /\ called' = [called EXCEPT ![r] = Append(@, drv)]
    /\ UNCHANGED <<cfgvars, count, wlog, fields, SF, ix, z, p, chan, nwrites, rounds,
                   touched, out_files>>

\* A slice outside the field reads storage the array does not own: the rank
\* dies there, or goes on with whatever the storage held.
Crash(r) ==
    /\ Goto(r, "crashed")
    /\ ub' = ub \cup {"slice"}

\* a root that stores its receive buffers without waiting for the senders
NoWaitAtRoot == TRUE

\* MPI_Gather at the root returns when the contribution of every rank is in
AllContributed == \A s \in Ranks \ {0} : chan[s] # << >>

\* what the receive buffers of rank 0 hold for rank i when the gathers return.
\* The gathers return at the root with every contribution in (AllContributed);
\* the last branch gives a buffer no gather has filled a definite content.
Received(i, drv) ==
    IF i = 0 THEN Contribution(0, drv)
    ELSE IF chan[i] # << >> THEN Head(chan[i])
    ELSE [k \in 1 .. Len(Contribution(0, drv)) |->
             IF k \in (IF Is2D(drv) THEN {3, 5} ELSE {4, 6}) THEN Junk ELSE 0]

\* an iteration that differences the fields in place instead of into buffers
Contribute_in_place(r, drv) ==
    /\ pc[r] = "gather" /\ r # 0
    /\ \/ /\ ~SlicesInField(Disp(r, drv), drv)
          /\ Crash(r)
          /\ UNCHANGED <<ix, z, p, chan, rounds>>
       \/ /\ Len(chan[r]) < MaxAhead
          /\ chan' = [chan EXCEPT ![r] = Append(@, Contribution(r, drv))]
          /\ rounds' = [rounds EXCEPT ![r] = @ + 1]
          /\ Advance(r, drv)
          /\ ub' = ub \cup (IF SlicesInField(Disp(r, drv), drv) THEN {} ELSE {"slice"})
    /\ count' = [count EXCEPT ![r] = EvalCount(Disp(r, drv), drv)]
    /\ fields' = [fields EXCEPT ![r] = [n \in FieldNames |->
                     IF n \in VariantFields
                     THEN [t \in DOMAIN fields[r][n] |-> fields[r][n][t] - fields[r][n][t]]
                     ELSE fields[r][n]]]
    /\ UNCHANGED <<cfgvars, called, wlog, SF, index_list, nwrites, touched, out_files>>

\* one iteration of the order loop on a rank other than 0: compute the values
\* and hand them to the gathers, which return once the values are sent
Contribute(r, drv) ==
    /\ pc[r] = "gather" /\ r # 0
    /\ \/ /\ ~SlicesInField(Disp(r, drv), drv)
          /\ Crash(r)
          /\ UNCHANGED <<ix, z, p, chan, rounds>>
       \/ /\ Len(chan[r]) < MaxAhead
          /\ chan' = [chan EXCEPT ![r] = Append(@, Contribution(r, drv))]
          /\ rounds' = [rounds EXCEPT ![r] = @ + 1]
          /\ Advance(r, drv)
          /\ ub' = ub \cup (IF SlicesInField(Disp(r, drv), drv) THEN {} ELSE {"slice"})
    /\ count' = [count EXCEPT ![r] = EvalCount(Disp(r, drv), drv)]
    /\ UNCHANGED <<cfgvars, called, wlog, fields, SF, index_list, nwrites, touched,
                   out_files>>

\* one iteration of the order loop on rank 0: compute the values, complete the
\* gathers once every rank has contributed, store the P tuples
Collect(r, drv) ==
    /\ pc[r] = "gather" /\ r = 0
    /\ \/ /\ ~SlicesInField(Disp(r, drv), drv)
          /\ Crash(r)
          /\ UNCHANGED <<ix, z, p, chan, rounds, SF, nwrites, touched, wlog>>
       \/ /\ AllContributed
          /\ LET got == [i \in Ranks |-> Received(i, drv)]
                 T == DriverTensors(drv)
                 stray == \E i \in Ranks, k \in 1 .. Len(T) :
                             SlotOf(got[i], drv) \notin DOMAIN SF[0][T[k]]
             IN  /\ SF' = [SF EXCEPT ![0] = [n \in SFNames |->
                            IF n \in SeqRange(T)
                            THEN StoreAll(@[n], got, drv,
                                          CHOOSE k \in 1 .. Len(T) : T[k] = n, 0)
                            ELSE @[n]]]
                 /\ nwrites' = [n \in SFNames |->
                            IF n \in SeqRange(T) THEN CountAll(nwrites[n], got, drv)
                            ELSE nwrites[n]]
                 /\ ub' = ub \cup (IF stray THEN {"tensor"} ELSE {})
                                \cup (IF SlicesInField(Disp(r, drv), drv) THEN {} ELSE {"slice"})
                 /\ touched' = [touched EXCEPT ![0] =
                            @ \cup {<<"calc_SFs", n>> : n \in SeqRange(T)}]
                 /\ wlog' = wlog \o Stores(got, drv)
          /\ chan' = [s \in Ranks |-> IF chan[s] = << >> THEN << >> ELSE Tail(chan[s])]
          /\ rounds' = [rounds EXCEPT ![r] = @ + 1]
          /\ Advance(r, drv)
    /\ count' = [count EXCEPT ![r] = EvalCount(Disp(r, drv), drv)]
    /\ UNCHANGED <<cfgvars, called, fields, index_list, out_files>>

\* a driver that returns without zeroing the origin slots
Cleanup_keeps_origin(r, drv) ==
    /\ pc[r] = "cleanup"
    /\ Goto(r, "write_SFs")
    /\ UNCHANGED <<cfgvars, count, called, wlog, fields, SF, index_list, ix, z, p, chan, nwrites, rounds,
                   touched, out_files, ub>>

\* after the loops: rank 0 zeroes the origin slot of every order
Cleanup(r, drv) ==
    /\ pc[r] = "cleanup"
    /\ IF r = 0
       THEN LET T == DriverTensors(drv)
                origin == IF Is2D(drv) THEN {<<0, 0, k>> : k \in 0 .. q2 - q1}
                          ELSE {<<0, 0, 0, k>> : k \in 0 .. q2 - q1}
                stray == \E n \in SeqRange(T) : ~(origin \subseteq DOMAIN SF[0][n])
            IN  /\ SF' = [SF EXCEPT ![0] = [n \in SFNames |->
                           IF n \in SeqRange(T)
                           THEN [s \in DOMAIN @[n] |-> IF s \in origin THEN Zero ELSE @[n][s]]
                           ELSE @[n]]]
                /\ ub' = ub \cup (IF stray THEN {"origin"} ELSE {})
                /\ touched' = [touched EXCEPT ![0] =
                           @ \cup {<<"calc_SFs", n>> : n \in SeqRange(T)}]
       ELSE UNCHANGED <<SF, ub, touched>>
    /\ Goto(r, "write_SFs")
    /\ UNCHANGED <<cfgvars, count, called, wlog, fields, index_list, ix, z, p, chan, nwrites, rounds,
                   out_files>>

\* calc_SFs: call the driver of the variant, which runs up to its first gather
calc_SFs(r) == Enter(r, Driver)

RunDriver(r, drv) ==
    /\ Driver = drv
    /\ Contribute(r, drv) \/ Collect(r, drv) \/ Cleanup(r, drv)

SFunc3D(r) == RunDriver(r, "SFunc3D")
SFunc_long_3D(r) == RunDriver(r, "SFunc_long_3D")
SFunc2D(r) == RunDriver(r, "SFunc2D")
SFunc_long_2D(r) == RunDriver(r, "SFunc_long_2D")
fn_SF_scalar_3D(r) == RunDriver(r, "SF_scalar_3D")
fn_SF_scalar_2D(r) == RunDriver(r, "SF_scalar_2D")

\* ------------------------------------------------------- write, verify
\* main, lines 396 and 448-456: SF_Grid_pll_name, SF_Grid_perp_name and
\* SF_Grid_scalar_name, the base names handed to write_SFs: the
\* defaults or the words given with -L, -P and -M
name_SF_Grid_pll == IF env = "argv_names" THEN "L_optarg" ELSE "SF_Grid_pll"
name_SF_Grid_perp == IF env = "argv_names" THEN "P_optarg" ELSE "SF_Grid_perp"
name_SF_Grid_scalar == IF env = "argv_names" THEN "M_optarg" ELSE "SF_Grid_scalar"

\* the base name of the files of an output tensor
BaseOf(n) ==
    CASE n \in {"SF_Grid_pll", "SF_Grid2D_pll"} -> name_SF_Grid_pll
      [] n \in {"SF_Grid_perp", "SF_Grid2D_perp"} -> name_SF_Grid_perp
      [] n \in {"SF_Grid_scalar", "SF_Grid2D_scalar"} -> name_SF_Grid_scalar

\* the tensors write_SFs saves, with the base name of their files
WrittenTensors ==
    IF two_dimension_switch
    THEN IF scalar_switch THEN {<<"SF_Grid2D_scalar", name_SF_Grid_scalar>>}
         ELSE {<<"SF_Grid2D_pll", name_SF_Grid_pll>>}
              \cup (IF ~longitudinal THEN {<<"SF_Grid2D_perp", name_SF_Grid_perp>>} ELSE {})
    ELSE IF scalar_switch THEN {<<"SF_Grid_scalar", name_SF_Grid_scalar>>}
         ELSE {<<"SF_Grid_pll", name_SF_Grid_pll>>}
              \cup (IF ~longitudinal THEN {<<"SF_Grid_perp", name_SF_Grid_perp>>} ELSE {})

\* a writer that takes the slice at index q instead of q-q1
SliceAt_order(A, q) ==
    LET S == {s \in DOMAIN A : s[Len(s)] = q}
    IN  [t \in {SubSeq(s, 1, Len(s) - 1) : s \in S} |-> A[Append(t, q)]]

\* write_4D, write_3D: the slice A(all, ..., q-q1) of a tensor
SliceAt(A, q) ==
    LET k == q - q1
        S == {s \in DOMAIN A : s[Len(s)] = k}
    IN  [t \in {SubSeq(s, 1, Len(s) - 1) : s \in S} |-> A[Append(t, k)]]

\* a main that calls test_cases whatever test_switch says
write_SFs_then_test_cases(r) ==
    /\ pc[r] = "write_SFs"
    /\ Goto(r, "test_cases")
    /\ UNCHANGED <<cfgvars, count, called, wlog, fields, SF, index_list, ix, z, p, chan, nwrites,
                   rounds, touched, out_files, ub>>

\* write_SFs: rank 0 writes out/<base><q>.h5 for q1 <= q <= q2
write_SFs(r) ==
    /\ pc[r] = "write_SFs"
    /\ IF r = 0
       THEN LET new == {<<w[2], q>> : w \in WrittenTensors, q \in q1 .. q2}
                src(f) == (CHOOSE w \in WrittenTensors : w[2] = f[1])[1]
            IN  /\ out_files' = [f \in DOMAIN out_files \cup new |->
                                   IF f \in new THEN SliceAt(SF[0][src(f)], f[2])
                                   ELSE out_files[f]]
                /\ touched' = [touched EXCEPT ![0] =
                                   @ \cup {<<"write_SFs", w[1]>> : w \in WrittenTensors}]
       ELSE UNCHANGED <<out_files, touched>>
    /\ Goto(r, IF test_switch THEN "test_cases" ELSE "finalize")
    /\ UNCHANGED <<cfgvars, count, called, wlog, fields, SF, index_list, ix, z, p, chan, nwrites,
                   rounds, ub>>

\* the files the test case of the variant reads back from out/
TestReads ==
    LET bases == IF scalar_switch THEN {"SF_Grid_scalar"}
                 ELSE IF longitudinal THEN {"SF_Grid_pll"}
                 ELSE {"SF_Grid_pll", "SF_Grid_perp"}
    IN  {<<b, q1 + order>> : b \in bases, order \in 0 .. q2 - q1}

\* test_cases: rank 0 compares the written files with the closed form; a file
\* that is not there ends the run in show_checklist
test_cases(r) ==
    /\ pc[r] = "test_cases"
    /\ IF r = 0 /\ ~(TestReads \subseteq DOMAIN out_files)
       THEN Exit(r, 1, TRUE)
       ELSE Goto(r, "finalize")
    /\ UNCHANGED <<cfgvars, count, called, wlog, fields, SF, index_list, ix, z, p, chan, nwrites,
                   rounds, touched, out_files, ub>>

\* main, lines 559-574: h5::finalize(), MPI_Finalize(), return 0
finalize(r) ==
    /\ pc[r] = "finalize"
    /\ Exit(r, 0, TRUE)
    /\ UNCHANGED <<cfgvars, count, called, wlog, fields, SF, index_list, ix, z, p, chan, nwrites,
                   rounds, touched, out_files, ub>>

\* one step of one rank
Next ==
    \/ \E r \in Ranks : main(r)
    \/ \E r \in Ranks : Read_fields(r)
    \/ \E r \in Ranks : resize_SFs(r)
    \/ \E r \in Ranks : calc_SFs(r)
    \/ \E r \in Ranks : SFunc3D(r)
    \/ \E r \in Ranks : SFunc_long_3D(r)
    \/ \E r \in Ranks : SFunc2D(r)
    \/ \E r \in Ranks : SFunc_long_2D(r)
    \/ \E r \in Ranks : fn_SF_scalar_3D(r)
    \/ \E r \in Ranks : fn_SF_scalar_2D(r)
    \/ \E r \in Ranks : write_SFs(r)
    \/ \E r \in Ranks : test_cases(r)
    \/ \E r \in Ranks : finalize(r)

Spec == Init /\ [][Next]_vars

\* ------------------------------------------------ partitioner specification
\* The process grid and the displacement table over a wider range of sizes:
\* rank 0 of a 3D scalar run, from the start of main to the table its driver
\* builds.  The other ranks have not been scheduled yet.
InitPart ==
    /\ P \in 1 .. MaxPPart
    /\ px \in 1 .. MaxPPart
    /\ Nx \in 1 .. MaxNPart
    /\ Ny \in 1 .. MaxNPart
    /\ Nz = 2
    /\ q1 = 0
    /\ q2 = 0
    /\ scalar_switch = TRUE
    /\ longitudinal = FALSE
    /\ two_dimension_switch = FALSE
    /\ test_switch = TRUE
    /\ env = "none"
    /\ InitRun

NextPart ==
    \/ main(0)
    \/ Read_fields(0)
    \/ resize_SFs(0)
    \/ calc_SFs(0)

SpecPart == InitPart /\ [][NextPart]_vars

\* ------------------------------------------------------ count specification
\* The divisor of the drivers on grids of production size: a single rank, a
\* power-of-two grid, from the start of main to the count of one displacement
\* of the half-domain (its corners and the first step along x).
InitCount ==
    /\ P = 1
    /\ px = 1
    /\ Nx \in {Pow(2, k) : k \in 1 .. MaxLog2}
    /\ Ny \in {Pow(2, k) : k \in 0 .. MaxLog2}
    /\ Nz \in {Pow(2, k) : k \in 1 .. MaxLog2}
    /\ q1 = 1
    /\ q2 = 1
    /\ scalar_switch = FALSE
    /\ longitudinal = FALSE
    /\ two_dimension_switch = (Ny = 1)
    /\ test_switch = FALSE
    /\ env = "none"
    /\ InitRun

\* the statement int count=... of the selected driver, for one displacement
count_of_displacement(r) ==
    /\ pc[r] = "Read_fields"
    /\ count[r] = NoCount
    /\ \E x \in {0, 1, Nx \div 2 - 1},
          y \in {0, FieldNy(Driver) \div 2 - 1} \cap (0 .. FieldNy(Driver)),
          zz \in {0, Nz \div 2 - 1} :
          count' = [count EXCEPT ![r] = EvalCount(<<x, y, zz>>, Driver)]
    /\ UNCHANGED <<cfgvars, pc, exit_status, finalized, fields, SF, index_list, ix, z, p,
                   chan, nwrites, rounds, touched, out_files, called, wlog, ub>>

NextCount ==
    \/ main(0)
    \/ count_of_displacement(0)

SpecCount == InitCount /\ [][NextCount]_vars

\* ------------------------------------------------------ orders specification
\* Whole runs on files, on the smallest grids that give each rank a row of the
\* table, over a wider range of orders: q1 from 0 to MaxOrder.
InitOrders ==
    /\ P \in 1 .. 2
    /\ px = 1
    /\ Nx = 2
    /\ two_dimension_switch \in BOOLEAN
    /\ Ny = IF two_dimension_switch THEN 1 ELSE 4
    /\ Nz = IF two_dimension_switch THEN 4 ELSE 2
    /\ q1 \in 0 .. MaxOrder
    /\ q2 \in q1 .. MaxOrder
    /\ scalar_switch \in BOOLEAN
    /\ longitudinal \in BOOLEAN
    /\ test_switch \in BOOLEAN
    /\ env = "none"
    /\ InitRun

SpecOrders == InitOrders /\ [][Next]_vars

\* ------------------------------------------------------------ vocabulary
\* The process-grid constraints of a valid configuration: px divides P,
\* py = P/px, px divides Nx/2 and py divides N2/2, with power-of-2 quotients
\* (N2 is Nz in 2D mode and Ny in 3D mode).
ValidGrid ==
    LET N2 == IF two_dimension_switch THEN Nz ELSE Ny
        py == P \div px
    IN  /\ px <= P
        /\ P % px = 0
        /\ (Nx \div 2) % px = 0
        /\ IsPow2((Nx \div 2) \div px)
        /\ (N2 \div 2) % py = 0
        /\ IsPow2((N2 \div 2) \div py)

\* the pairs (x, y) of the half-domain the table partitions
HalfDomain ==
    LET N2 == IF two_dimension_switch THEN Nz ELSE Ny
    IN  (0 .. (Nx \div 2) - 1) \X (0 .. (N2 \div 2) - 1)

\* the places (row, rank) of a table that hold the pair d
PlacesOf(t, d) ==
    {rc \in (0 .. t.list_size - 1) \X (0 .. P - 1) :
        t.data[<<rc[1], 0, rc[2]>>] = d[1] /\ t.data[<<rc[1], 1, rc[2]>>] = d[2]}

\* rank r is back in main after its driver returned
Returned(r) ==
    \/ pc[r] \in {"write_SFs", "test_cases", "finalize"}
    \/ pc[r] = "exited" /\ exit_status[r] = 0
    \/ pc[r] = "exited" /\ r = 0 /\ DOMAIN out_files # {}

\* rank r has left the gather loop of its driver
LoopDone(r) == pc[r] = "cleanup" \/ Returned(r)

\* rank r is suspended in the gathers of a round: rank 0 until every rank
\* has contributed, another rank while its earlier contribution is in flight
Waiting(r) ==
    /\ pc[r] = "gather"
    /\ SlicesInField(Disp(r, Driver), Driver)
    /\ IF r = 0 THEN ~AllContributed ELSE Len(chan[r]) >= MaxAhead

\* some rank that has neither exited nor died can go on
CanStep == \E r \in Ranks : pc[r] \notin {"exited", "crashed"} /\ ~Waiting(r)

\* gather rounds of a driver: list length x Nz/2 x orders (2D: list length x orders)
ExpectedRounds ==
    c_per_proc(Driver) * (IF Is2D(Driver) THEN 1 ELSE Nz \div 2) * (q2 - q1 + 1)

\* the origin slots of a tensor: (0, ..., 0, p) for every order index p
OriginSlots(A) == {s \in DOMAIN A : \A k \in 1 .. Len(s) - 1 : s[k] = 0}

\* --------------------------------------------------------------- claims
\* C1: under the process-grid constraints the table compute_index_list builds
\* is an exact partition of the half-domain: every pair (x, y) with
\* 0 <= x < Nx/2 and 0 <= y < Ny/2 is held by exactly one (row, rank) place.
C1_ExactPartition ==
    \A r \in Ranks :
        (ValidGrid /\ index_list[r] # Empty) =>
            \A d \in HalfDomain : Cardinality(PlacesOf(index_list[r], d)) = 1

\* C2: under a valid configuration, once rank 0 has finished the gather loop
\* every slot of every result tensor of the variant has received exactly one
\* write from the loop.
C2_OneWritePerSlot ==
    (ValidGrid /\ LoopDone(0)) =>
        \A n \in SeqRange(DriverTensors(Driver)) :
            \A s \in DOMAIN nwrites[n] : nwrites[n][s] = 1

\* C3: after the driver has returned on rank 0, every result tensor of the
\* variant holds 0 in each of its origin slots (0, ..., 0, p), whatever the
\* gather loop stored there.  (A tensor with an axis of extent 0 has no
\* origin slot to hold a value.)
C3_OriginZero ==
    Returned(0) =>
        \A n \in SeqRange(DriverTensors(Driver)) :
            \A s \in OriginSlots(SF[0][n]) : SF[0][n][s] = Zero

\* C3 witness: the driver has returned and the gather loop had written an
\* origin slot of a tensor of the variant.
C3_Witness ==
    /\ Returned(0)
    /\ \E n \in SeqRange(DriverTensors(Driver)) :
          \E s \in OriginSlots(SF[0][n]) : nwrites[n][s] >= 1

\* C4: if px > P, or (Nx/2) mod px # 0, or (N2/2) mod (P/px) # 0, every rank
\* finalizes and exits with status 1 before Read_fields, resize_SFs or
\* calc_SFs: no field is loaded, no tensor is sized, no gather is issued.
C4_ChecksAbort ==
    ~ChecksPass =>
        \A r \in Ranks :
            /\ pc[r] \in {"main", "exited"}
            /\ pc[r] = "exited" => (exit_status[r] = 1 /\ finalized[r] = {"h5", "mpi"})
            /\ \A n \in FieldNames : fields[r][n] = Empty
            /\ \A n \in SFNames : SF[r][n] = Empty
            /\ rounds[r] = 0 /\ chan[r] = << >>

\* C5: if px divides Nx/2, or P/px divides N2/2, with a quotient that is not
\* a power of 2, the run aborts with exit status 1 before compute starts.
C5_Pow2Abort ==
    LET N2 == IF two_dimension_switch THEN Nz ELSE Ny
        py == P \div px
        bad(h, d) == d > 0 /\ h % d = 0 /\ ~IsPow2(h \div d)
    IN  (bad(Nx \div 2, px) \/ bad(N2 \div 2, py)) =>
            \A r \in Ranks :
                /\ pc[r] \in {"main", "exited"}
                /\ pc[r] = "exited" => exit_status[r] = 1

\* C6: under a valid configuration every rank issues the same gather rounds:
\* a rank that has left its loop has issued ExpectedRounds of them, a
\* contribution waiting at rank 0 carries the z and p of rank 0's own round,
\* and no rank stops inside the loop while the others wait for it.
C6_SameGatherSequence ==
    ValidGrid =>
        /\ \A r \in Ranks : pc[r] # "crashed"
        /\ \A r \in Ranks : LoopDone(r) => rounds[r] = ExpectedRounds
        /\ \A r \in Ranks \ {0} :
              (pc[0] = "gather" /\ chan[r] # << >>) =>
                  LET m == Head(chan[r])
                  IN  IF Is2D(Driver) THEN m[4] = p[0]
                      ELSE m[3] = z[0] /\ m[5] = p[0]

\* C7: under a valid configuration with all inputs available the run cannot
\* stop short of its end: in every state either some rank can take a step, or
\* every rank has left its driver and exited with status 0 and rank 0 has
\* written the output.  (Every step of a rank advances its position in main or
\* a loop counter, so a run that cannot stop short ends.)
C7_Terminates ==
    (ValidGrid /\ env = "none") =>
        \/ CanStep
        \/ /\ \A r \in Ranks : pc[r] = "exited" /\ exit_status[r] = 0
           /\ DOMAIN out_files # {}

\* C8: the P tuples rank 0 receives in one gather round address pairwise
\* distinct slots.
C8_DistinctSlots ==
    (pc[0] = "gather" /\ AllContributed) =>
        \A i, j \in Ranks :
            i # j => SlotOf(Received(i, Driver), Driver) # SlotOf(Received(j, Driver), Driver)

\* C9: rank 0 stores the tuples of a gather round only after every rank has
\* contributed to that round: it has never completed more rounds than a rank
\* has issued, and its tensors have never received more writes than P per
\* round the ranks have all issued.
C9_WriteAfterContribute ==
    \A r \in Ranks :
        /\ rounds[0] <= rounds[r]
        /\ \A n \in SeqRange(DriverTensors(Driver)) :
              SumOver(nwrites[n], DOMAIN nwrites[n]) <= P * rounds[r]

\* C9 witness: two ranks, and rank 0 has stored the tuples of a round
C9_Witness ==
    /\ P >= 2
    /\ rounds[0] >= 1
    /\ \E n \in SeqRange(DriverTensors(Driver)) :
          SumOver(nwrites[n], DOMAIN nwrites[n]) >= 2

\* C10: only rank 0 sizes, writes, reads or saves a result tensor: on every
\* other rank the six tensors stay unallocated and are never indexed.
C10_OnlyRankZero ==
    \A r \in Ranks \ {0} :
        /\ \A n \in SFNames : SF[r][n] = Empty
        /\ touched[r] = {}

\* C10 witness: a second rank has run to its exit while rank 0 sized, stored
\* into and saved its tensors.
C10_Witness ==
    /\ P >= 2
    /\ pc[1] = "exited" /\ exit_status[1] = 0
    /\ \E n \in SFNames :
          {<<"resize_SFs", n>>, <<"calc_SFs", n>>, <<"write_SFs", n>>} \subseteq touched[0]

\* C11: the divisor count a driver applies at a displacement (x, y, z) is the
\* mathematical product (Nx-x)(Ny-y)(Nz-z) (2D: (Nx-x)(Nz-z)); the 32-bit
\* product does not wrap on any grid the program accepts.
C11_CountIsProduct ==
    \A r \in Ranks :
        count[r] # NoCount =>
            Widen(count[r].value) =
                Product3(Nx - count[r].at[1], FieldNy(Driver) - count[r].at[2],
                         Nz - count[r].at[3])

\* C12: on every fatal error path (parameter file cannot be opened, word that
\* is not a boolean given to str_to_bool, decomposition check fails, input
\* file missing, dataset of wrong rank or shape) the detecting rank finalizes
\* HDF5 and MPI before it exits.  These are the paths that exit with status 1.
C12_FinalizeBeforeExit ==
    \A r \in Ranks :
        pc[r] = "exited" /\ exit_status[r] = 1 => finalized[r] = {"h5", "mpi"}

\* C13: every error of the taxonomy (missing or unparseable parameter file,
\* word that is not a boolean, missing input file, dataset of wrong rank or
\* shape, decomposition violation) ends the run with status 1 before any
\* driver is entered; a run with no error ends with status 0.
C13_FatalStatusOne ==
    \A r \in Ranks :
        pc[r] = "exited" =>
            IF env \in Faults \ {"none"} \/ ~ChecksPass
            THEN exit_status[r] = 1 /\ called[r] = << >>
            ELSE exit_status[r] = 0

\* the orchestrator phase of a position in main: INIT 0, LOAD 1, ALLOC 2,
\* COMPUTE 3, WRITE 4, VERIFY 5, TEARDOWN 6, ended 7
Phase(label) ==
    CASE label = "main" -> 0
      [] label = "Read_fields" -> 1
      [] label = "resize_SFs" -> 2
      [] label \in {"calc_SFs", "gather", "cleanup"} -> 3
      [] label = "write_SFs" -> 4
      [] label = "test_cases" -> 5
      [] label = "finalize" -> 6
      [] OTHER -> 7

\* C14: every rank goes through INIT, LOAD, ALLOC, COMPUTE, WRITE, VERIFY,
\* TEARDOWN once and in that order: a step of a rank stays in its phase, ends
\* the run, or starts the next phase after the current one has finished;
\* VERIFY is entered only from WRITE and only when test_switch is true (it is
\* skipped otherwise), and a run ends with status 0 only out of TEARDOWN.
C14_PhaseOrder ==
    [][\A r \in Ranks :
          LET a == Phase(pc[r])
              b == Phase(pc'[r])
          IN  /\ b >= a
              /\ b = a => a \in {3, 7} \/ pc'[r] = pc[r]
              /\ b > a /\ b # 7 => b = a + 1 \/ (a = 4 /\ b = 6 /\ ~test_switch)
              /\ b > a /\ b = 5 => test_switch /\ a = 4
              /\ b > a /\ b = 5 /\ r = 0 =>
                    \A w \in WrittenTensors, q \in q1 .. q2 : <<w[2], q>> \in DOMAIN out_files'
              /\ b > a /\ b = 7 /\ exit_status'[r] = 0 => a = 6]_vars

\* a successful run with test_switch on has reached TEARDOWN through VERIFY
C14_Witness ==
    /\ test_switch
    /\ P = 2
    /\ \A r \in Ranks : pc[r] = "exited" /\ exit_status[r] = 0 /\ called[r] # << >>
    /\ DOMAIN out_files # {}

\* the variant matrix: the driver of a (dimension, scalar, longitudinal) choice
VariantMatrix ==
    CASE ~two_dimension_switch /\ scalar_switch -> "SF_scalar_3D"
      [] ~two_dimension_switch /\ ~scalar_switch /\ longitudinal -> "SFunc_long_3D"
      [] ~two_dimension_switch /\ ~scalar_switch /\ ~longitudinal -> "SFunc3D"
      [] two_dimension_switch /\ scalar_switch -> "SF_scalar_2D"
      [] two_dimension_switch /\ ~scalar_switch /\ longitudinal -> "SFunc_long_2D"
      [] two_dimension_switch /\ ~scalar_switch /\ ~longitudinal -> "SFunc2D"

\* C15: calc_SFs invokes exactly one driver per run, the one the variant
\* matrix gives for (two_dimension_switch, scalar_switch, longitudinal); with
\* scalar_switch true the longitudinal flag does not change the choice.  No
\* driver has been invoked before COMPUTE, one from the driver's entry on.
C15_OneDriver ==
    \A r \in Ranks :
        /\ called[r] \in {<< >>, <<VariantMatrix>>}
        /\ Phase(pc[r]) \in 4 .. 6 => called[r] = <<VariantMatrix>>
        /\ pc[r] \in {"gather", "cleanup"} => called[r] = <<VariantMatrix>>
        /\ pc[r] \in {"main", "Read_fields", "resize_SFs", "calc_SFs"} => called[r] = << >>

\* a scalar run with the longitudinal flag set has run the scalar driver
C15_Witness ==
    /\ scalar_switch /\ longitudinal
    /\ \E r \in Ranks : pc[r] = "write_SFs" /\ called[r] = <<"SF_scalar_3D">>

\* the index set of a file of the run: (Nx/2, Nz/2) in 2D, (Nx/2, Ny/2, Nz/2) in 3D
FileShape ==
    IF two_dimension_switch THEN (0 .. Nx \div 2 - 1) \X (0 .. Nz \div 2 - 1)
    ELSE (0 .. Nx \div 2 - 1) \X (0 .. Ny \div 2 - 1) \X (0 .. Nz \div 2 - 1)

LOf(s) ==
    IF Len(s) = 3 THEN <<s[1] * dx, 0, s[2] * dz>>
    ELSE <<s[1] * dx, s[2] * dy, s[3] * dz>>

\* the order q a slot of a result tensor stands for
QOf(s) == q1 + s[Len(s)]

\* r^q for r = sqrt(R2)
RPow(R2, q) ==
    IF q % 2 = 0 THEN Rat(Pow(R2, q \div 2), 1)
    ELSE Surd(Pow(R2, (q - 1) \div 2), 1, R2)

\* rank 0 runs the test fields on a valid process grid with q1 >= 1, and its
\* driver has returned
TestRunDone ==
    /\ test_switch /\ ValidGrid /\ q1 >= 1
    /\ Returned(0)

RefLog ==
    LET drv == Driver
        T == DriverTensors(drv)
        tab == compute_index_list(Nx, N2of(drv), P, px, [i \in 0 .. P-1 |-> 0])
        nz == IF Is2D(drv) THEN 1 ELSE Nz \div 2
        nq == q2 - q1 + 1
        n == c_per_proc(drv) * nz * nq * P * Len(T)
        slot(k, i) ==
            LET a == tab.data[<<k \div (nz * nq), 0, i>>]
                b == tab.data[<<k \div (nz * nq), 1, i>>]
            IN  IF Is2D(drv) THEN <<a, b, k % nq>>
                ELSE <<a, b, (k \div nq) % nz, k % nq>>
    IN  IF index_list[0] = Empty THEN << >>
        ELSE [j \in 1 .. n |->
                <<T[((j - 1) % Len(T)) + 1],
                  slot((j - 1) \div (Len(T) * P), ((j - 1) \div Len(T)) % P)>>]

\* the value the kernel of the driver gives the slot s of its k-th tensor
RefValue(k, s) ==
    LET l == IF Len(s) = 3 THEN <<s[1], 0, s[2]>> ELSE <<s[1], s[2], s[3]>>
    IN  IF \A c \in 1 .. Len(s) - 1 : s[c] = 0 THEN Zero
        ELSE ValueOf(Kernel(l, s[Len(s)], fields[0], Driver), Driver, k)

\* C19: two runs with the same configuration, fields and (P, px) apply the
\* same sequence of slot writes to the result tensors and end with the same
\* tensor contents, whatever the interleaving of the ranks: the stores of
\* rank 0 follow the sequence of the reference run, are that sequence when
\* the gather loop is over, and the tensors then hold the kernel's values.
C19_SameWrites ==
    /\ Len(wlog) <= Len(RefLog)
    /\ \A j \in 1 .. Len(wlog) : wlog[j] = RefLog[j]
    /\ LoopDone(0) => Len(wlog) = Len(RefLog)
    /\ Returned(0) =>
          \A k \in 1 .. Len(DriverTensors(Driver)) :
              \A s \in DOMAIN SF[0][DriverTensors(Driver)[k]] :
                  SF[0][DriverTensors(Driver)[k]][s] = RefValue(k, s)

\* the work of rank i: the pairs its driver differences over the rows of its
\* column of the table t, summed over z in [0, Nz/2)
Work(t, i) ==
    LET rows == (0 .. t.list_size - 1) \X (0 .. Nz \div 2 - 1)
    IN  SumOver([w \in rows |->
                    (Nx - t.data[<<w[1], 0, i>>]) * (Ny - t.data[<<w[1], 1, i>>])
                    * (Nz - w[2])], rows)

\* every pair (entry(i), entry(i+1)), i even, of a per-axis list of an axis of
\* size N shared by np processes has the summed work 2N - H + 1, H = N/2
PairsBalanced(N, np) ==
    \A rank \in 0 .. P - 1 :
        LET H == N \div 2
            L == compute_index_list_1D(H, np, rank).list
        IN  \A i \in DOMAIN L :
                i % 2 = 0 /\ i + 1 \in DOMAIN L =>
                    (N - L[i]) + (N - L[i + 1]) = 2 * N - H + 1

\* C20: the partition balances the load: in every per-axis list the pairs
\* (entry(i), entry(i+1)) with i even have the same summed work 2N - H + 1, and
\* when both per-axis list lengths are even the total work over the
\* displacements of a rank is the same for all P ranks.
C20_BalancedLoad ==
    index_list[0] # Empty =>
        LET py == P \div px
        IN  /\ PairsBalanced(Nx, px)
            /\ PairsBalanced(Ny, py)
            /\ (((Nx \div 2) \div px) % 2 = 0 /\ ((Ny \div 2) \div py) % 2 = 0) =>
                    \A i, j \in 0 .. P - 1 : Work(index_list[0], i) = Work(index_list[0], j)

\* the 1D list of half-size H, process count p and coordinate c is as stated:
\* length H/p, c + i*p at even i, the mirror H - 1 - entry(i) after it, a
\* single entry c and no mirror written when p = H, every entry in [0, H),
\* and no write past the end of the list
ListAsStated(H, np) ==
    \A c \in 0 .. np - 1 :
        LET R == compute_index_list_1D(H, np, c)
            L == R.list
        IN  /\ DOMAIN L = 0 .. (H \div np) - 1
            /\ \A i \in DOMAIN L :
                  /\ i % 2 = 0 => L[i] = c + i * np
                  /\ i % 2 = 0 /\ i + 1 \in DOMAIN L => L[i + 1] = H - 1 - L[i]
                  /\ L[i] \in 0 .. H - 1
            /\ ~R.oob
            /\ np = H => DOMAIN L = {0} /\ L[0] = c

\* C21: for half-size H, process count p dividing H with power-of-2 quotient
\* and coordinate c in [0, p), the 1D compute_index_list returns the list of
\* length H/p with entry(i) = c + i*p at even i and H - 1 - entry(i) at i + 1,
\* the single entry c when p = H, every entry in [0, H).  Checked on both axes
\* of every table the 3D partitioner builds.
C21_List1D ==
    index_list[0] # Empty =>
        \A ax \in {<<Nx \div 2, px>>, <<Ny \div 2, P \div px>>} :
            (ax[2] >= 1 /\ ax[1] % ax[2] = 0 /\ IsPow2(ax[1] \div ax[2])) =>
                ListAsStated(ax[1], ax[2])

\* the partitioner has built lists with a mirrored entry (H = 4, p = 2) and
\* a single-entry list (p = H = 2)
C21_Witness ==
    /\ index_list[0] # Empty
    /\ Nx \div 2 = 4 /\ px = 2
    /\ Ny \div 2 = 2 /\ P \div px = 2
    /\ compute_index_list_1D(4, 2, 1).list = [i \in 0 .. 1 |-> IF i = 0 THEN 1 ELSE 2]

\* C22: for every displacement l = (x, y, z) a driver processes, the difference
\* buffer of each field component F has shape (Nx-x, Ny-y, Nz-z) and holds
\* F(i+x, j+y, k+z) - F(i, j, k) at (i, j, k), the shifted point minus the
\* base point (2D: over (x, z)): the slices it is filled from lie in the field.
C22_DifferenceBuffer ==
    \A r \in Ranks :
        (count[r] # NoCount /\ pc[r] # "crashed") =>
            LET l == count[r].at
                n2 == FieldNy(Driver)
            IN  /\ SlicesInField(l, Driver)
                /\ \A name \in VariantFields :
                      LET F == fields[r][name]
                          B == Delta(F, l[1], l[2], l[3], Nx, n2, Nz)
                      IN  /\ DOMAIN B = Box(Nx - l[1], n2 - l[2], Nz - l[3])
                          /\ \A t \in DOMAIN B :
                                B[t] = F[<<t[1] + l[1], t[2] + l[2], t[3] + l[3]>>] - F[t]

\* r*r of the displacement l: lx*lx + ly*ly + lz*lz
R2Of(l, drv) ==
    LET lx == l[1] * dx
        ly == IF Is2D(drv) THEN 0 ELSE l[2] * dy
        lz == l[3] * dz
    IN  lx * lx + ly * ly + lz * lz

\* C23: the vector drivers never evaluate a division by r when r = 0.  The
\* projection (lx*dUx + ly*dUy + lz*dUz)/r is a statement of the loop body
\* with no condition around it, so it is evaluated at every displacement a
\* rank processes: none of them may have r = 0.
C23_NoDivisionByZero ==
    \A r \in Ranks :
        (count[r] # NoCount /\ pc[r] # "crashed" /\ ~scalar_switch) =>
            R2Of(count[r].at, Driver) # 0

\* C24: from the end of LOAD to TEARDOWN the field arrays are unchanged on
\* every rank: no step of a rank that is past Read_fields (driver, gather,
\* write, verification, finalize) changes an element of an input field, and a
\* step of the drivers changes no result tensor but those of rank 0.
C24_FieldsUnchanged ==
    [][\A r \in Ranks :
          /\ Phase(pc[r]) >= 2 => fields'[r] = fields[r]
          /\ (Phase(pc[r]) = 3 /\ r # 0) => SF'[r] = SF[r]]_vars

\* both ranks are in TEARDOWN after a run on files, each with rounds behind it
\* and with the arrays Read_fields loaded
C24_Witness ==
    /\ P = 2 /\ ~test_switch /\ ~scalar_switch /\ ~two_dimension_switch
    /\ \A r \in Ranks :
          /\ pc[r] = "finalize" /\ rounds[r] > 0
          /\ \A n \in VariantFields : fields[r][n] = DataSet(n, Nx, Ny, Nz)

\* the mean over all in-grid pairs of the q-th power of the difference
\* functional of the k-th tensor of the driver, at the displacement of place t
\* of a file
MeanOfPower(k, t, q) ==
    LET drv == Driver
        l == IF Is2D(drv) THEN <<t[1], 0, t[2]>> ELSE t
        n2 == FieldNy(drv)
        pairs == (Nx - l[1]) * (n2 - l[2]) * (Nz - l[3])
        D(name) == Delta(fields[0][name], l[1], l[2], l[3], Nx, n2, Nz)
        lx == l[1] * dx
        ly == IF Is2D(drv) THEN 0 ELSE l[2] * dy
        lz == l[3] * dz
        dUx == D(IF Is2D(drv) THEN "V1_2D" ELSE "V1")
        dUy == IF Is2D(drv) THEN [u \in DOMAIN dUx |-> 0] ELSE D("V2")
        dUz == D(IF Is2D(drv) THEN "V3_2D" ELSE "V3")
        num == [u \in DOMAIN dUx |-> lx * dUx[u] + ly * dUy[u] + lz * dUz[u]]
        m == [u \in DOMAIN dUx |->
                (dUx[u] * dUx[u] + dUy[u] * dUy[u] + dUz[u] * dUz[u]) * R2Of(l, drv)
                - num[u] * num[u]]
    IN  IF scalar_switch THEN St_of(D(IF Is2D(drv) THEN "T_2D" ELSE "T"), q, pairs)
        ELSE IF k = 1 THEN Spll_of(num, R2Of(l, drv), q, pairs)
        ELSE Sperp_of(m, R2Of(l, drv), q, pairs)

\* rank 0 has written the files of the run
Written == Phase(pc[0]) \in 5 .. 6 \/ (pc[0] = "exited" /\ exit_status[0] = 0)

\* the places of a file that stand for the displacement 0
OriginPlaces == {t \in FileShape : \A c \in 1 .. Len(t) : t[c] = 0}

\* at the places D, the tensors hold at order index q - q1, and the file of
\* order q holds, the mean of the q-th power of a functional that is defined
\* there (r # 0 for the vector functionals)
StoredIsMean(D) ==
    \A k \in 1 .. Len(DriverTensors(Driver)), q \in q1 .. q2, t \in D :
        LET n == DriverTensors(Driver)[k]
        IN  /\ scalar_switch \/ R2Of(IF Len(t) = 2 THEN <<t[1], 0, t[2]>> ELSE t, Driver) # 0
            /\ SF[0][n][Append(t, q - q1)] = MeanOfPower(k, t, q)
            /\ out_files[<<BaseOf(n), q>>][t] = MeanOfPower(k, t, q)

C26_ChecksMakePartitionSafe ==
    index_list[0] # Empty =>
        /\ ~index_list[0].oob
        /\ index_list[0].assigned = 0 .. index_list[0].list_size - 1
        /\ \A d \in HalfDomain : Cardinality(PlacesOf(index_list[0], d)) = 1

\* C27: under a valid configuration with Nx, Ny, Nz >= 2 (2D: Nx, Nz >= 2)
\* every array access of a driver is in bounds: the displacement a rank is
\* about to process has both slices of every axis inside the field, with equal
\* non-empty extents, and every tuple rank 0 stores addresses a slot with
\* 0 <= X < Nx/2, 0 <= Y < Ny/2, 0 <= Z < Nz/2, 0 <= p_arr <= q2 - q1.
C27_DriverInBounds ==
    (ValidGrid /\ Nx >= 2 /\ Nz >= 2 /\ (two_dimension_switch \/ Ny >= 2)) =>
        /\ \A r \in Ranks :
              pc[r] = "gather" =>
                  LET l == Disp(r, Driver)
                  IN  /\ SlicesInField(l, Driver)
                      /\ Nx - l[1] >= 1 /\ FieldNy(Driver) - l[2] >= 1 /\ Nz - l[3] >= 1
        /\ \A j \in 1 .. Len(wlog) : wlog[j][2] \in TensorSlots(wlog[j][1])
        /\ ub \cap {"slice", "tensor"} = {}

\* the result tensors rank 0 has sized, stored into or saved in a phase
TouchedIn(phase) == {n \in SFNames : <<phase, n>> \in touched[0]}

\* the result tensors of a variant: the longitudinal or the scalar one, and the
\* transverse one exactly for a vector field with longitudinal false
TensorsOfVariant ==
    LET g == IF two_dimension_switch THEN "SF_Grid2D" ELSE "SF_Grid"
    IN  IF scalar_switch THEN {g \o "_scalar"}
        ELSE {g \o "_pll"} \cup (IF longitudinal THEN {} ELSE {g \o "_perp"})

\* C28: for each variant the same set of result tensors is allocated by
\* resize_SFs, written by the selected driver and saved by write_SFs, with the
\* transverse tensor in it exactly when the field is a vector field and
\* longitudinal is false; no driver or writer indexes a tensor resize_SFs did
\* not allocate, and no rank but 0 indexes any.
C28_SameTensorSet ==
    /\ TouchedIn("calc_SFs") \subseteq TouchedIn("resize_SFs")
    /\ TouchedIn("write_SFs") \subseteq TouchedIn("resize_SFs")
    /\ TouchedIn("resize_SFs") \in {{}, TensorsOfVariant}
    /\ Written =>
          /\ TouchedIn("resize_SFs") = TensorsOfVariant
          /\ TouchedIn("calc_SFs") = TensorsOfVariant
          /\ TouchedIn("write_SFs") = TensorsOfVariant

\* a two-rank vector run has allocated, written and saved the transverse tensor
C28_Witness ==
    /\ Written /\ P = 2 /\ ~scalar_switch /\ ~longitudinal /\ ~two_dimension_switch
    /\ rounds[0] > 0
    /\ "SF_Grid_perp" \in TouchedIn("resize_SFs") \cap TouchedIn("calc_SFs")
                          \cap TouchedIn("write_SFs")

\* C29: in test mode every file VERIFY reads is a file WRITE produced earlier
\* in the same run: when rank 0 enters test_cases, for every order of
\* [q1, q2] and whatever the base names (the defaults or the words given with
\* -L, -P, -M), the files the test case opens are exactly the files
\* write_SFs wrote.
C29_TestReadsWritten ==
    (test_switch /\ pc[0] = "test_cases") => TestReads = DOMAIN out_files

\* (0, 0, 0, Range::all()) and (0, 0, Range::all()): the elements the origin
\* cleanup of a driver assigns in a result tensor
OriginRange(n) ==
    IF n \in {"SF_Grid2D_pll", "SF_Grid2D_perp", "SF_Grid2D_scalar"}
    THEN {<<0, 0, k>> : k \in 0 .. q2 - q1}
    ELSE {<<0, 0, 0, k>> : k \in 0 .. q2 - q1}

\* main, lines 479-488: an axis of one point, whose spacing is set to 0
DegenerateAxis == Nx = 1 \/ Ny = 1 \/ Nz = 1

\* C30: a grid with a degenerate axis is handled safely: when the
\* configuration passes the checks of main, every tensor resize_SFs allocated
\* has a non-empty extent along every axis and holds its origin slots
\* (0, ..., 0, p), and the origin cleanup of the driver writes only allocated
\* elements.
C30_DegenerateAxisSafe ==
    (DegenerateAxis /\ ChecksPass) =>
        /\ \A n \in TouchedIn("resize_SFs") :
              /\ DOMAIN SF[0][n] # {}
              /\ OriginRange(n) \subseteq DOMAIN SF[0][n]
        /\ "origin" \notin ub

====
